---- MODULE Spec2Model ----
(***************************************************************************)
(* mess: a less-like viewer with markdown support (src/src/main.rs).       *)
(*                                                                         *)
(* Four specifications over one set of variables:                          *)
(*   Spec       the event loop of run(): AppState, the key handlers and    *)
(*              the frame render() paints before each event::read()        *)
(*   SpecScroll AppState::scroll_up / scroll_down called directly with     *)
(*              arbitrary arguments                                        *)
(*   SpecTok    the inline tokenizer loop of render_single_view /          *)
(*              render_side_by_side on one line, one iteration per step    *)
(*   SpecNorm   the post-pass of AppState::render_markdown                 *)
(* Strings are sequences of one-character strings; a byte index of the     *)
(* Rust code is an index into that sequence (every marker is ASCII).       *)
(***************************************************************************)
EXTENDS Integers, Sequences, FiniteSets, TLC

VARIABLES
    \* AppState (main.rs:36-43); content / rendered_content are held as the
    \* line sequences that .lines() yields
    is_markdown, content, rendered_content, view_mode, scroll_offset,
    \* run(): where the loop is, and what the last terminal.draw painted
    pc, frame,
    \* history: the view modes seen just before each of the latest
    \* consecutive Tab keys (emptied by any other key)
    tab_run,
    \* history: the last direct call of scroll_up / scroll_down (SpecScroll)
    call,
    \* the tokenizer loop: the line, `remaining`, `spans`, and per span the
    \* characters the iteration skipped around it (history), loop position
    line, remaining, spans, cut, tpc,
    \* render_markdown post-pass: the text as accumulated, `result`, position
    accumulated, result, npc

appVars  == <<is_markdown, content, rendered_content, view_mode, scroll_offset>>
loopVars == <<pc, frame, tab_run>>
tokVars  == <<line, remaining, spans, cut, tpc>>
normVars == <<accumulated, result, npc>>
vars == <<appVars, loopVars, call, tokVars, normVars>>

\* ---------------------------------------------------------------- bounds
MaxLines == 11       \* longest document (lines) of Spec
MaxHeight == 3       \* tallest content area of Spec
RunWindow == 4       \* how many consecutive Tab keys tab_run remembers
MaxArg == 12         \* largest argument / offset of SpecScroll
MaxLineLen == 6      \* longest enumerated line of SpecTok
MaxTextLen == 8      \* longest accumulated text of SpecNorm

\* --------------------------------------------------- program constants
LineStep == 1        \* KeyCode::Up / Down
PageStep == 10       \* KeyCode::PageUp / PageDown

Min(a, b) == IF a < b THEN a ELSE b
Max(a, b) == IF a > b THEN a ELSE b

\* usize::saturating_sub
saturating_sub(a, b) == IF a > b THEN a - b ELSE 0

\* ------------------------------------------------------------- AppState
ViewModes == {"Rendered", "Source", "SideBySide"}

\* n distinct lines of one stream
Lines(kind, n) == [i \in 1..n |-> <<kind, i>>]

\* AppState::new: the mode a document starts in
InitialMode(md) == IF md THEN "Rendered" ELSE "Source"

\* the match of toggle_view_mode
NextMode(m) ==
    CASE m = "Rendered"   -> "Source"
      [] m = "Source"     -> "SideBySide"
      [] m = "SideBySide" -> "Rendered"

ToggleNoGuard(md, mode, offset) ==
    [view_mode |-> NextMode(mode), scroll_offset |-> 0]

ToggleNoReset(md, mode, offset) ==
    IF ~md
    THEN [view_mode |-> mode, scroll_offset |-> offset]
    ELSE [view_mode |-> NextMode(mode), scroll_offset |-> offset]

ToggleTwoModes(md, mode, offset) ==
    IF ~md
    THEN [view_mode |-> mode, scroll_offset |-> offset]
    ELSE [view_mode |-> IF mode = "Rendered" THEN "Source" ELSE "Rendered",
          scroll_offset |-> 0]

\* AppState::toggle_view_mode: the fields it leaves behind
toggle_view_mode(md, mode, offset) ==
    IF ~md
    THEN [view_mode |-> mode, scroll_offset |-> offset]
    ELSE [view_mode |-> NextMode(mode), scroll_offset |-> 0]

ScrollUpNoGuard(offset, lines) == offset - lines

\* AppState::scroll_up: the new scroll_offset
scroll_up(offset, lines) ==
    IF offset > lines THEN offset - lines ELSE 0

ScrollDownNoSaturate(offset, lines, max_lines) == offset + lines

ScrollDownToCount(offset, lines, max_lines) ==
    IF offset + lines < max_lines THEN offset + lines ELSE max_lines

\* AppState::scroll_down: the new scroll_offset
scroll_down(offset, lines, max_lines) ==
    IF offset + lines < max_lines
    THEN offset + lines
    ELSE saturating_sub(max_lines, 1)

GetContentLinesRenderedFirst(mode) ==
    CASE mode = "Rendered" -> rendered_content
      [] mode = "Source"   -> content
      [] mode = "SideBySide" -> rendered_content

\* AppState::get_content_lines for a given mode
get_content_lines(mode) ==
    CASE mode = "Rendered" -> rendered_content
      [] mode = "Source"   -> content
      [] mode = "SideBySide" ->
            IF Len(rendered_content) > Len(content)
            THEN rendered_content
            ELSE content

\* ----------------------------------------------------------------- render
\* a Rust range index lines[a..b] panics unless a <= b <= len
SliceOk(lines, a, b) == a <= b /\ b <= Len(lines)
Slice(lines, a, b) == SubSeq(lines, a + 1, b)

EndLineNoMin(start_line, visible_lines, len) == start_line + visible_lines

\* end_line of render_single_view / end_line_rendered, end_line_source
end_line(start_line, visible_lines, len) ==
    Min(start_line + visible_lines, len)

\* one pane: the `if start_line < lines.len() { lines[start..end] } else
\* { Text::default() }` of both render functions
Pane(lines, start_line, visible_lines) ==
    LET e == end_line(start_line, visible_lines, Len(lines)) IN
    IF start_line < Len(lines)
    THEN [text  |-> IF SliceOk(lines, start_line, e)
                    THEN Slice(lines, start_line, e) ELSE <<>>,
          taken |-> TRUE,
          from  |-> start_line,
          to    |-> e,
          panic |-> ~SliceOk(lines, start_line, e)]
    ELSE [text |-> <<>>, taken |-> FALSE, from |-> start_line, to |-> e,
          panic |-> FALSE]

\* render_single_view: the pane and the scrollbar state
render_single_view(mode, offset, height) ==
    LET content_lines == get_content_lines(mode) IN
    [panes    |-> <<Pane(content_lines, offset, height)>>,
     styled   |-> <<mode = "Rendered">>,
     total    |-> Len(content_lines),
     position |-> offset,
     height   |-> height]

\* render_side_by_side: left = rendered, right = source, one scrollbar
render_side_by_side(mode, offset, height) ==
    [panes    |-> <<Pane(rendered_content, offset, height),
                    Pane(content, offset, height)>>,
     styled   |-> <<TRUE, FALSE>>,
     total    |-> Max(Len(rendered_content), Len(content)),
     position |-> offset,
     height   |-> height]

\* render: the content area of the frame
render(mode, offset, height) ==
    IF mode = "SideBySide"
    THEN render_side_by_side(mode, offset, height)
    ELSE render_single_view(mode, offset, height)

Heights == 0..MaxHeight

\* ------------------------------------------------------- idle components
TokIdle ==
    /\ line = <<>> /\ remaining = <<>> /\ spans = <<>> /\ cut = <<>>
    /\ tpc = "idle"
NormIdle == accumulated = <<>> /\ result = <<>> /\ npc = "idle"
CallIdle == call = [op |-> "none"]
LoopIdle == pc = "idle" /\ frame = [panes |-> <<>>] /\ tab_run = <<>>
AppIdle ==
    /\ is_markdown = FALSE /\ content = <<>> /\ rendered_content = <<>>
    /\ view_mode = "Source" /\ scroll_offset = 0

\* ------------------------------------------------------------ Spec: run()
\* AppState::new, then the first terminal.draw of run()
Init ==
    /\ is_markdown \in BOOLEAN
    /\ \E sl \in 0..MaxLines : content = Lines("src", sl)
    /\ IF is_markdown
       THEN \E rl \in 0..MaxLines : rendered_content = Lines("md", rl)
       ELSE rendered_content = content
    /\ view_mode = InitialMode(is_markdown)
    /\ scroll_offset = 0
    /\ pc = "read"
    /\ \E h \in Heights : frame = render(view_mode, scroll_offset, h)
    /\ tab_run = <<>>
    /\ CallIdle /\ TokIdle /\ NormIdle

\* the loop comes round: terminal.draw(render) with the state just written
Redraw ==
    /\ pc' = "read"
    /\ \E h \in Heights : frame' = render(view_mode', scroll_offset', h)

Doc == UNCHANGED <<is_markdown, content, rendered_content>>
Rest == UNCHANGED <<call, tokVars, normVars>>

LastN(s, n) == IF Len(s) <= n THEN s ELSE SubSeq(s, Len(s) - n + 1, Len(s))

\* KeyCode::Char('q') | KeyCode::Esc => break
KeyQuit ==
    /\ pc = "read"
    /\ pc' = "done"
    /\ UNCHANGED <<appVars, frame, tab_run>>
    /\ Rest

\* KeyCode::Tab => app_state.toggle_view_mode()
KeyTab ==
    /\ pc = "read"
    /\ LET t == toggle_view_mode(is_markdown, view_mode, scroll_offset) IN
         /\ view_mode' = t.view_mode
         /\ scroll_offset' = t.scroll_offset
    /\ tab_run' = LastN(Append(tab_run, view_mode), RunWindow)
    /\ Doc /\ Redraw /\ Rest

\* KeyCode::Up => app_state.scroll_up(1)
KeyUp ==
    /\ pc = "read"
    /\ scroll_offset' = scroll_up(scroll_offset, LineStep)
    /\ tab_run' = <<>>
    /\ UNCHANGED view_mode
    /\ Doc /\ Redraw /\ Rest

\* KeyCode::Down => scroll_down(1, get_content_lines().len())
KeyDown ==
    /\ pc = "read"
    /\ scroll_offset' =
          scroll_down(scroll_offset, LineStep, Len(get_content_lines(view_mode)))
    /\ tab_run' = <<>>
    /\ UNCHANGED view_mode
    /\ Doc /\ Redraw /\ Rest

\* KeyCode::PageUp => app_state.scroll_up(10)
KeyPageUp ==
    /\ pc = "read"
    /\ scroll_offset' = scroll_up(scroll_offset, PageStep)
    /\ tab_run' = <<>>
    /\ UNCHANGED view_mode
    /\ Doc /\ Redraw /\ Rest

\* KeyCode::PageDown => scroll_down(10, get_content_lines().len())
KeyPageDown ==
    /\ pc = "read"
    /\ scroll_offset' =
          scroll_down(scroll_offset, PageStep, Len(get_content_lines(view_mode)))
    /\ tab_run' = <<>>
    /\ UNCHANGED view_mode
    /\ Doc /\ Redraw /\ Rest

\* KeyCode::Home => app_state.scroll_offset = 0
KeyHome ==
    /\ pc = "read"
    /\ scroll_offset' = 0
    /\ tab_run' = <<>>
    /\ UNCHANGED view_mode
    /\ Doc /\ Redraw /\ Rest

\* KeyCode::End => scroll_offset = get_content_lines().len().saturating_sub(1)
KeyEnd ==
    /\ pc = "read"
    /\ scroll_offset' = saturating_sub(Len(get_content_lines(view_mode)), 1)
    /\ tab_run' = <<>>
    /\ UNCHANGED view_mode
    /\ Doc /\ Redraw /\ Rest

\* Ctrl+h => show_help(terminal)?; continue: the help is painted, any key
\* dismisses it, and the loop redraws the unchanged state
KeyHelp ==
    /\ pc = "read"
    /\ tab_run' = <<>>
    /\ UNCHANGED <<view_mode, scroll_offset>>
    /\ Doc /\ Redraw /\ Rest

\* any other key (`_ => {}`) and any event that is no key: the loop redraws
KeyOther ==
    /\ pc = "read"
    /\ tab_run' = <<>>
    /\ UNCHANGED <<view_mode, scroll_offset>>
    /\ Doc /\ Redraw /\ Rest

Next ==
    \/ KeyQuit \/ KeyTab \/ KeyUp \/ KeyDown \/ KeyPageUp \/ KeyPageDown
    \/ KeyHome \/ KeyEnd \/ KeyHelp \/ KeyOther

Spec == Init /\ [][Next]_vars

\* ------------------------------------------------ claims checked under Spec
\* the line count that bounds scrolling in the current mode
ActiveLineCount ==
    CASE view_mode = "Rendered"   -> Len(rendered_content)
      [] view_mode = "Source"     -> Len(content)
      [] view_mode = "SideBySide" -> Max(Len(rendered_content), Len(content))

\* C1: in every state reached by advance, scroll and jump keys the scroll
\* offset lies in 0 .. max(0, active_line_count - 1), the count being that of
\* the current mode.
C1_OffsetInRange ==
    /\ scroll_offset >= 0
    /\ scroll_offset <= Max(0, ActiveLineCount - 1)

\* the offset sits at the last line of the longer stream in SideBySide, a
\* page or more down, with streams of different length
C1_Witness ==
    /\ view_mode = "SideBySide"
    /\ Len(rendered_content) < Len(content)
    /\ scroll_offset >= PageStep
    /\ scroll_offset = ActiveLineCount - 1

\* the mode n advances ago, within the current run of advances
ModeBefore(n) == tab_run[Len(tab_run) - n + 1]

\* C2 as stated: for a markdown document four consecutive advance actions
\* return to the original mode, the offset being 0 after each.
C2_FourAdvancesReturn ==
    (is_markdown /\ Len(tab_run) >= 4) =>
        (view_mode = ModeBefore(4) /\ scroll_offset = 0)

\* C2 amended: for a markdown document three consecutive advance actions
\* return to the original mode, and the offset is 0 after each advance.
C2_ThreeAdvancesReturn ==
    is_markdown =>
        /\ (Len(tab_run) >= 1 => scroll_offset = 0)
        /\ (Len(tab_run) >= 3 => view_mode = ModeBefore(3))

\* three advances in a row have brought a markdown document back to Source
C2_Witness ==
    /\ is_markdown
    /\ Len(tab_run) >= 3
    /\ ModeBefore(3) = "Source"
    /\ view_mode = "Source"

\* the cycle of the claim: Rendered -> Source -> SideBySide -> Rendered
CycleSucc ==
    [m \in ViewModes |->
        IF m = "Rendered" THEN "Source"
        ELSE IF m = "Source" THEN "SideBySide" ELSE "Rendered"]

\* C3: a markdown document starts in Rendered; every advance moves the mode
\* exactly one step along the cycle and sets the offset to 0; no step of the
\* program changes the mode in any other way.
C3_AdvanceOneStep ==
    /\ (is_markdown => view_mode = "Rendered")
    /\ [][ /\ (KeyTab /\ is_markdown) =>
                (view_mode' = CycleSucc[view_mode] /\ scroll_offset' = 0)
           /\ (view_mode' # view_mode) =>
                (KeyTab /\ view_mode' = CycleSucc[view_mode]) ]_vars

\* an advance has just wrapped SideBySide round to Rendered
C3_Witness ==
    /\ is_markdown
    /\ tab_run # <<>>
    /\ ModeBefore(1) = "SideBySide"
    /\ view_mode = "Rendered"
    /\ scroll_offset = 0

\* C4: for a non-markdown document the mode is Source in every state, and
\* advance changes neither the mode nor the offset.
C4_NonMarkdownLock ==
    /\ [](~is_markdown => view_mode = "Source")
    /\ [][(KeyTab /\ ~is_markdown) =>
             UNCHANGED <<view_mode, scroll_offset>>]_vars

\* advance was pressed on a non-markdown document scrolled away from the top
C4_Witness ==
    /\ ~is_markdown
    /\ tab_run # <<>>
    /\ scroll_offset > 0
    /\ view_mode = "Source"

\* the stream pane i of the frame shows, per the claim
PaneStream(i) ==
    CASE view_mode = "Rendered"   -> rendered_content
      [] view_mode = "Source"     -> content
      [] view_mode = "SideBySide" -> IF i = 1 THEN rendered_content ELSE content

PaneCount == IF view_mode = "SideBySide" THEN 2 ELSE 1

\* pane i is lines[offset .. min(offset + height, len)] of its stream, taken
\* without a range error, and holds at most `height` lines
PaneIsSlice(i) ==
    LET p == frame.panes[i]
        s == PaneStream(i)
        e == Min(scroll_offset + frame.height, Len(s))
    IN  /\ ~p.panic
        /\ p.taken => (p.from <= p.to /\ p.to <= Len(s))
        /\ Len(p.text) = Max(0, e - scroll_offset)
        /\ Len(p.text) <= frame.height
        /\ \A k \in 1..Len(p.text) : p.text[k] = s[scroll_offset + k]

FrameIsSlices ==
    /\ Len(frame.panes) = PaneCount
    /\ \A i \in 1..PaneCount : PaneIsSlice(i)
    /\ frame.position = scroll_offset
    /\ frame.total = ActiveLineCount

\* C10 as stated: for every viewport height the panes are the slices, and in
\* SideBySide a pane is empty exactly when the offset is at or past the end
\* of its stream.
C10_PaneEmptyIffPastEnd ==
    /\ FrameIsSlices
    /\ view_mode = "SideBySide" =>
          \A i \in 1..2 :
              (frame.panes[i].text = <<>>) <=> (scroll_offset >= Len(PaneStream(i)))

\* C10 amended: the panes are the slices for every viewport height; in
\* SideBySide with a viewport height of at least 1 a pane is empty exactly
\* when the offset is at or past the end of its stream (with height 0 every
\* pane is empty).
C10_VisibleSlice ==
    /\ FrameIsSlices
    /\ view_mode = "SideBySide" =>
          \A i \in 1..2 :
              /\ frame.height >= 1 =>
                   ((frame.panes[i].text = <<>>)
                        <=> (scroll_offset >= Len(PaneStream(i))))
              /\ frame.height = 0 => frame.panes[i].text = <<>>

\* SideBySide, scrolled past the end of the shorter rendered stream: the
\* left pane has run out and the right pane still shows a full viewport
C10_Witness ==
    /\ view_mode = "SideBySide"
    /\ frame.height >= 2
    /\ scroll_offset >= Len(rendered_content)
    /\ Len(rendered_content) >= 1
    /\ frame.panes[1].text = <<>>
    /\ Len(frame.panes[2].text) = frame.height

\* the offset of the last line of the active stream (0 when it is empty)
Bottom == Max(0, ActiveLineCount - 1)

\* C13: one saturation rule: jump-end sets the offset to
\* active_line_count - 1 (0 when the stream is empty), the offset that
\* scroll-down by 1 or by a page produces whenever offset + n >=
\* active_line_count; at the bottom further scroll-down and jump-end leave
\* the offset unchanged; jump-home sets it to 0.
C13_OneSaturationRule ==
    /\ [][KeyEnd => scroll_offset' = Bottom]_vars
    /\ [][(KeyDown /\ scroll_offset + LineStep >= ActiveLineCount) =>
             scroll_offset' = Bottom]_vars
    /\ [][(KeyPageDown /\ scroll_offset + PageStep >= ActiveLineCount) =>
             scroll_offset' = Bottom]_vars
    /\ [][((KeyDown \/ KeyPageDown \/ KeyEnd) /\ scroll_offset = Bottom) =>
             scroll_offset' = scroll_offset]_vars
    /\ [][KeyHome => scroll_offset' = 0]_vars

\* SideBySide with the rendered stream the longer one, scrolled by scroll
\* or jump keys to its last line, past the end of the source stream
C13_Witness ==
    /\ view_mode = "SideBySide"
    /\ Len(rendered_content) > Len(content)
    /\ Len(content) >= 1
    /\ tab_run = <<>>
    /\ scroll_offset = Bottom
    /\ scroll_offset >= Len(content)

\* ---------------------------------- SpecScroll: the scroll methods alone
\* an AppState whose scroll_offset is any value, also one past a count
InitScroll ==
    /\ is_markdown = FALSE /\ content = <<>> /\ rendered_content = <<>>
    /\ view_mode = "Source"
    /\ scroll_offset \in 0..MaxArg
    /\ LoopIdle /\ CallIdle /\ TokIdle /\ NormIdle

ScrollRest ==
    UNCHANGED <<is_markdown, content, rendered_content, view_mode,
                loopVars, tokVars, normVars>>

\* app_state.scroll_up(lines)
CallScrollUp ==
    /\ \E lines \in 0..MaxArg :
          /\ scroll_offset' = scroll_up(scroll_offset, lines)
          /\ call' = [op |-> "scroll_up", offset |-> scroll_offset,
                      lines |-> lines, max_lines |-> 0]
    /\ ScrollRest

\* app_state.scroll_down(lines, max_lines)
CallScrollDown ==
    /\ \E lines \in 0..MaxArg, max_lines \in 0..MaxArg :
          /\ scroll_offset' = scroll_down(scroll_offset, lines, max_lines)
          /\ call' = [op |-> "scroll_down", offset |-> scroll_offset,
                      lines |-> lines, max_lines |-> max_lines]
    /\ ScrollRest

NextScroll == CallScrollUp \/ CallScrollDown

SpecScroll == InitScroll /\ [][NextScroll]_vars

STAR  == "*"
TICK  == "BACKTICK"   \* the backtick, which a TLA+ string cannot hold
HASH  == "#"
SPACE == " "

\* &s[a..] and &s[a..b]
from(s, a) == SubSeq(s, a + 1, Len(s))
range(s, a, b) == SubSeq(s, a + 1, b)

\* str::starts_with
starts_with(s, p) == Len(s) >= Len(p) /\ SubSeq(s, 1, Len(p)) = p

\* the indices at which pattern p occurs in s
Occurrences(s, p) ==
    {i \in 0..(Len(s) - Len(p)) : SubSeq(s, i + 1, i + Len(p)) = p}

Least(S) == CHOOSE i \in S : \A j \in S : i <= j

\* str::find with a string pattern: the first index, or -1 for None
find(s, p) ==
    IF Occurrences(s, p) = {} THEN -1 ELSE Least(Occurrences(s, p))

\* str::find with a closure over characters: the first index, or -1
find_char(s, cs) ==
    LET hits == {i \in 0..(Len(s) - 1) : s[i + 1] \in cs} IN
    IF hits = {} THEN -1 ELSE Least(hits)

\* remaining.chars().take_while(|&c| c == '#').count()
RECURSIVE take_while_hash(_)
take_while_hash(s) ==
    IF s # <<>> /\ Head(s) = HASH THEN 1 + take_while_hash(Tail(s)) ELSE 0

\* ------------------------------------------------- the inline tokenizer
\* (render_single_view 294-342; render_side_by_side 402-445 is the same loop)
\* One iteration pushes the span &remaining[from..to] with `style` and either
\* breaks or goes on with &remaining[next..].
Emit(rule, style, a, b, c, brk) ==
    [rule |-> rule, style |-> style, from |-> a, to |-> b, next |-> c,
     brk |-> brk]

\* spans.push(Span::raw(remaining)); break;
RawRest(rem) == Emit("unpaired", "raw", 0, Len(rem), Len(rem), TRUE)

\* `**` branch
BoldBranch(rem) ==
    LET end == find(from(rem, 2), <<STAR, STAR>>) IN
    IF end # -1
    THEN Emit("bold", "BOLD", 2, end + 2, end + 4, FALSE)
    ELSE RawRest(rem)

ItalicKeepsClose(rem) ==
    LET end == find(from(rem, 1), <<STAR>>) IN
    IF end # -1
    THEN Emit("italic", "ITALIC", 1, end + 1, end + 1, FALSE)
    ELSE RawRest(rem)

\* `*` branch
ItalicBranch(rem) ==
    LET end == find(from(rem, 1), <<STAR>>) IN
    IF end # -1
    THEN Emit("italic", "ITALIC", 1, end + 1, end + 2, FALSE)
    ELSE RawRest(rem)

\* backtick branch
CodeBranch(rem) ==
    LET end == find(from(rem, 1), <<TICK>>) IN
    IF end # -1
    THEN Emit("code", "Yellow", 1, end + 1, end + 2, FALSE)
    ELSE RawRest(rem)

HeaderKeepsRemaining(rem) ==
    LET header_level == take_while_hash(rem) IN
    IF /\ header_level > 0
       /\ Len(rem) > header_level
       /\ rem[header_level + 1] = SPACE
    THEN Emit("header", "BOLD", header_level + 1, Len(rem), 0, FALSE)
    ELSE RawRest(rem)

\* `#` branch: remaining = "" ends the loop at its next test
HeaderBranch(rem) ==
    LET header_level == take_while_hash(rem) IN
    IF /\ header_level > 0
       /\ Len(rem) > header_level
       /\ rem[header_level + 1] = SPACE
    THEN Emit("header", "BOLD", header_level + 1, Len(rem), Len(rem), FALSE)
    ELSE RawRest(rem)

PlainToEnd(rem) == Emit("plain", "raw", 0, Len(rem), Len(rem), FALSE)

\* regular text branch
PlainBranch(rem) ==
    LET f == find_char(rem, {STAR, TICK, HASH})
        next_special == IF f = -1 THEN Len(rem) ELSE f
    IN  Emit("plain", "raw", 0, next_special, next_special, FALSE)

BranchItalicFirst(rem) ==
    IF starts_with(rem, <<STAR>>) THEN "italic"
    ELSE IF starts_with(rem, <<STAR, STAR>>) THEN "bold"
    ELSE IF starts_with(rem, <<TICK>>) THEN "code"
    ELSE IF starts_with(rem, <<HASH>>) THEN "header"
    ELSE "plain"

\* the if / else-if chain: which branch an iteration takes
Branch(rem) ==
    IF starts_with(rem, <<STAR, STAR>>) THEN "bold"
    ELSE IF starts_with(rem, <<STAR>>) THEN "italic"
    ELSE IF starts_with(rem, <<TICK>>) THEN "code"
    ELSE IF starts_with(rem, <<HASH>>) THEN "header"
    ELSE "plain"

\* what one iteration leaves behind
Iterate(e) ==
    /\ spans' = Append(spans, [text  |-> range(remaining, e.from, e.to),
                               style |-> e.style])
    /\ cut' = Append(cut, [rule |-> e.rule,
                           pre  |-> range(remaining, 0, e.from),
                           post |-> range(remaining, e.to, e.next)])
    /\ remaining' = IF e.brk THEN remaining ELSE from(remaining, e.next)
    /\ tpc' = IF e.brk THEN "done" ELSE "scan"
    /\ UNCHANGED <<line, appVars, loopVars, call, normVars>>

Scanning == tpc = "scan" /\ remaining # <<>>

TokBold   == Scanning /\ Branch(remaining) = "bold"   /\ Iterate(BoldBranch(remaining))
TokItalic == Scanning /\ Branch(remaining) = "italic" /\ Iterate(ItalicBranch(remaining))
TokCode   == Scanning /\ Branch(remaining) = "code"   /\ Iterate(CodeBranch(remaining))
TokHeader == Scanning /\ Branch(remaining) = "header" /\ Iterate(HeaderBranch(remaining))
TokPlain  == Scanning /\ Branch(remaining) = "plain"  /\ Iterate(PlainBranch(remaining))

\* while !remaining.is_empty() fails: Line::from(spans)
TokExit ==
    /\ tpc = "scan" /\ remaining = <<>>
    /\ tpc' = "done"
    /\ UNCHANGED <<line, remaining, spans, cut, appVars, loopVars, call, normVars>>

Alphabet == {STAR, TICK, HASH, SPACE, "a"}

LinesUpTo(n) == UNION {[1..k -> Alphabet] : k \in 0..n}

UnclosedBoldLine ==
    <<"a", " ", "*", "*", "b", "o", "l", "d", " ", "w", "i", "t", "h", "o",
      "u", "t", " ", "c", "l", "o", "s", "e">>

PairedBoldLine ==
    <<"*", "*", "h", "i", "*", "*", " ", "t", "h", "e", "r", "e">>

HeaderLine == <<"#", "#", " ", "T", "i", "t", "l", "e">>

SampleLines == {UnclosedBoldLine, PairedBoldLine, HeaderLine}

\* a line of the visible slice of a styled pane, about to be tokenized
InitTok ==
    /\ line \in LinesUpTo(MaxLineLen) \cup SampleLines
    /\ remaining = line
    /\ spans = <<>>
    /\ cut = <<>>
    /\ tpc = "scan"
    /\ AppIdle /\ LoopIdle /\ CallIdle /\ NormIdle

NextTok == TokBold \/ TokItalic \/ TokCode \/ TokHeader \/ TokPlain \/ TokExit

SpecTok == InitTok /\ [][NextTok]_vars

\* the loop is straight-line code inside one draw: it keeps running until
\* it exits
SpecTokFair == SpecTok /\ WF_vars(NextTok)

\* --------------------------------------------- claims checked under SpecTok
\* the spec's segment styles, as the code paints them
Plain == "raw"

RECURSIVE Concat(_)
\* the texts of the segments, in order
Concat(ss) == IF ss = <<>> THEN <<>> ELSE Head(ss).text \o Concat(Tail(ss))

RECURSIVE Rejoin(_, _)
\* the segments with the characters skipped around each put back
Rejoin(ss, cs) ==
    IF ss = <<>> THEN <<>>
    ELSE Head(cs).pre \o Head(ss).text \o Head(cs).post
            \o Rejoin(Tail(ss), Tail(cs))

Has(s, c) == \E i \in 1..Len(s) : s[i] = c

\* C6 as stated: the line "a **bold without close" yields the single segment
\* {"a **bold without close", Plain}.
C6_SingleSegment ==
    (tpc = "done" /\ line = UnclosedBoldLine) =>
        spans = << [text |-> UnclosedBoldLine, style |-> Plain] >>

\* C6 amended: the line "a **bold without close" yields two Plain segments,
\* "a " and "**bold without close", which concatenate to the line.
C6_TwoPlainSegments ==
    (tpc = "done" /\ line = UnclosedBoldLine) =>
        /\ spans = << [text |-> <<"a", " ">>, style |-> Plain],
                      [text |-> from(UnclosedBoldLine, 2), style |-> Plain] >>
        /\ Concat(spans) = UnclosedBoldLine

\* the scan of "a **bold without close" has ended on the unpaired `**`
C6_Witness ==
    /\ tpc = "done"
    /\ line = UnclosedBoldLine
    /\ cut[Len(cut)].rule = "unpaired"

\* nothing skipped, or an opening and a closing marker of one kind
PairedMarkers(c) ==
    \/ c.pre = <<>> /\ c.post = <<>>
    \/ c.pre = c.post /\ c.pre \in {<<STAR, STAR>>, <<STAR>>, <<TICK>>}

\* a run of `#` and the space after it skipped before the text, nothing after
HeaderPrefix(c) ==
    /\ c.post = <<>>
    /\ Len(c.pre) >= 2
    /\ c.pre[Len(c.pre)] = SPACE
    /\ \A k \in 1..(Len(c.pre) - 1) : c.pre[k] = HASH

\* C7 as stated: the segment texts reconstruct the line with only the
\* delimiters of successfully paired `**`, `*` and backtick markers removed,
\* and byte for byte when the line holds no such delimiter.
C7_RoundTripPairedOnly ==
    tpc = "done" =>
        /\ Rejoin(spans, cut) = line
        /\ \A i \in 1..Len(spans) : PairedMarkers(cut[i])
        /\ (~Has(line, STAR) /\ ~Has(line, TICK)) => Concat(spans) = line

\* C7 amended: the segment texts reconstruct the line with only the
\* delimiters of successfully paired `**`, `*` and backtick markers and, where
\* the header rule fires, the run of `#` with the space after it removed; and
\* byte for byte when the line holds none of `*`, backtick and `#`.
C7_RoundTrip ==
    /\ tpc = "scan" => Rejoin(spans, cut) \o remaining = line
    /\ tpc = "done" =>
          /\ Rejoin(spans, cut) = line
          /\ \A i \in 1..Len(spans) :
                \/ PairedMarkers(cut[i])
                \/ HeaderPrefix(cut[i]) /\ i = Len(spans)
          /\ (~Has(line, STAR) /\ ~Has(line, TICK) /\ ~Has(line, HASH)) =>
                Concat(spans) = line

\* a line whose scan paired an italic marker and then took the header rule,
\* each around some text
C7_Witness ==
    /\ tpc = "done"
    /\ Len(spans) = 2
    /\ cut[1].rule = "italic" /\ spans[1].text # <<>>
    /\ cut[2].rule = "header" /\ spans[2].text # <<>>
    /\ Concat(spans) # line

\* C8: a header segment is the first and only segment of its line, and the
\* line begins with `#`: the header rule never fires mid-line.
C8_HeaderOnlyAtLineStart ==
    \A i \in 1..Len(spans) :
        cut[i].rule = "header" =>
            /\ i = 1
            /\ Len(spans) = 1
            /\ line # <<>> /\ line[1] = HASH

\* where the closing `**` of a remainder that opens with `**` begins: the
\* first index past the opening marker at which `**` occurs, or none
ClosingBold(rem) ==
    {k \in 2..(Len(rem) - 2) :
        /\ rem[k + 1] = STAR /\ rem[k + 2] = STAR
        /\ \A j \in 2..(k - 1) : ~(rem[j + 1] = STAR /\ rem[j + 2] = STAR)}

\* C11: when the remainder starts with `**` and a later `**` exists, the
\* iteration emits exactly the text between the two markers as Bold and goes
\* on right after the closing marker; with no closing `**` the whole
\* remainder becomes one Plain segment and the scan stops, also when a single
\* `*` occurs later. "**hi** there" yields [{"hi", Bold}, {" there", Plain}].
C11_PairedBold ==
    /\ []((tpc = "done" /\ line = PairedBoldLine) =>
            spans = << [text |-> <<"h", "i">>, style |-> "BOLD"],
                       [text |-> <<" ", "t", "h", "e", "r", "e">>,
                        style |-> Plain] >>)
    /\ [][ (tpc = "scan" /\ starts_with(remaining, <<STAR, STAR>>)) =>
             IF ClosingBold(remaining) # {}
             THEN \E k \in ClosingBold(remaining) :
                    /\ spans' = Append(spans, [text  |-> range(remaining, 2, k),
                                               style |-> "BOLD"])
                    /\ remaining' = from(remaining, k + 2)
                    /\ tpc' = "scan"
             ELSE /\ spans' = Append(spans, [text |-> remaining,
                                             style |-> Plain])
                  /\ tpc' = "done" ]_vars

\* "**hi** there" has been tokenized; its first segment came from the `**`
\* branch
C11_Witness ==
    /\ tpc = "done"
    /\ line = PairedBoldLine
    /\ Len(spans) = 2
    /\ cut[1].rule = "bold"

\* what the iteration on remainder rem pushes and where it goes on
Chosen(rem) ==
    CASE Branch(rem) = "bold"   -> BoldBranch(rem)
      [] Branch(rem) = "italic" -> ItalicBranch(rem)
      [] Branch(rem) = "code"   -> CodeBranch(rem)
      [] Branch(rem) = "header" -> HeaderBranch(rem)
      [] Branch(rem) = "plain"  -> PlainBranch(rem)

\* C12: the scan of every line ends, without a range error: each iteration
\* stops the scan or strictly shortens the remainder (a `#` with no space
\* after it, a lone marker and an empty pair such as `****` included), every
\* slice it takes lies inside the remainder, and the empty line yields the
\* empty segment sequence.
C12_ScanTerminates ==
    /\ []((tpc = "scan" /\ remaining # <<>>) =>
            LET e == Chosen(remaining) IN
                /\ 0 <= e.from /\ e.from <= e.to
                /\ e.to <= e.next /\ e.next <= Len(remaining))
    /\ []((tpc = "done" /\ line = <<>>) => spans = <<>>)
    /\ [][ tpc = "scan" =>
             (tpc' = "done" \/ Len(remaining') < Len(remaining)) ]_vars
    /\ <>(tpc = "done")

\* the scan of `****# ` has ended: an empty pair was consumed, then a header
\* with nothing after its space
C12_Witness ==
    /\ tpc = "done"
    /\ line = <<STAR, STAR, STAR, STAR, HASH, SPACE>>
    /\ Len(spans) = 2
    /\ spans[1].text = <<>>
    /\ remaining = <<>>

\* ------------------------------- SpecNorm: the render_markdown post-pass
NL == "\n"

\* str::contains
contains(s, p) == Occurrences(s, p) # {}

RECURSIVE replace(_, _, _)
\* str::replace: every non-overlapping match, left to right
replace(s, pat, to) ==
    IF Len(s) < Len(pat) THEN s
    ELSE IF SubSeq(s, 1, Len(pat)) = pat
         THEN to \o replace(from(s, Len(pat)), pat, to)
         ELSE <<Head(s)>> \o replace(Tail(s), pat, to)

MoreBreaksFour(s) == contains(s, <<NL, NL, NL, NL>>)

\* the test of `while result.contains("\n\n\n")`
MoreBreaks(s) == contains(s, <<NL, NL, NL>>)

\* the body of the loop
CollapseOnce(s) == replace(s, <<NL, NL, NL>>, <<NL, NL>>)

RECURSIVE collapse(_)
\* the whole loop, as a function of the text it starts from
collapse(s) == IF MoreBreaks(s) THEN collapse(CollapseOnce(s)) ELSE s

IsWhite(c) == c \in {NL, SPACE}

RECURSIVE trim_start(_)
trim_start(s) ==
    IF s # <<>> /\ IsWhite(Head(s)) THEN trim_start(Tail(s)) ELSE s

RECURSIVE trim_end(_)
trim_end(s) ==
    IF s # <<>> /\ IsWhite(s[Len(s)])
    THEN trim_end(SubSeq(s, 1, Len(s) - 1)) ELSE s

\* str::trim
trim(s) == trim_end(trim_start(s))

TextAlphabet == {NL, SPACE, "a"}

TextsUpTo(n) == UNION {[1..k -> TextAlphabet] : k \in 0..n}

\* the event fold has ended: `result` holds the accumulated text
InitNorm ==
    /\ accumulated \in TextsUpTo(MaxTextLen)
    /\ result = accumulated
    /\ npc = "loop"
    /\ AppIdle /\ LoopIdle /\ CallIdle /\ TokIdle

NormRest == UNCHANGED <<accumulated, appVars, loopVars, call, tokVars>>

\* one turn of the loop: result = result.replace("\n\n\n", "\n\n")
CollapsePass ==
    /\ npc = "loop"
    /\ MoreBreaks(result)
    /\ result' = CollapseOnce(result)
    /\ UNCHANGED npc
    /\ NormRest

\* the loop test fails
CollapseExit ==
    /\ npc = "loop"
    /\ ~MoreBreaks(result)
    /\ npc' = "trim"
    /\ UNCHANGED result
    /\ NormRest

\* result.trim().to_string()
TrimReturn ==
    /\ npc = "trim"
    /\ result' = trim(result)
    /\ npc' = "done"
    /\ NormRest

NextNorm == CollapsePass \/ CollapseExit \/ TrimReturn

\* render_markdown is straight-line code: it keeps running until it returns
SpecNorm == InitNorm /\ [][NextNorm]_vars /\ WF_vars(NextNorm)

\* the longest run of consecutive line breaks in s is shorter than 3
NoTripleBreak(s) ==
    \A i \in 1..(Len(s) - 2) : ~(s[i] = NL /\ s[i + 1] = NL /\ s[i + 2] = NL)

\* C9: the post-pass ends, every pass shortening the text; what it leaves
\* (and what is returned after the trim) holds no run of three or more line
\* breaks, is what the loop makes of the accumulated text, and is left as it
\* is by a second application of the pass.
C9_BlankLineCollapse ==
    /\ [](npc \in {"trim", "done"} => NoTripleBreak(result))
    /\ [](npc = "trim" =>
            /\ result = collapse(accumulated)
            /\ collapse(result) = result
            /\ CollapseOnce(result) = result)
    /\ [][CollapsePass => Len(result') < Len(result)]_vars
    /\ <>(npc = "done")

\* a text with a run of five or more line breaks between two words has been
\* collapsed, in more than one pass, to one blank line
C9_Witness ==
    /\ npc = "trim"
    /\ Len(accumulated) - Len(result) >= 3
    /\ result = <<"a", NL, NL, "a">>

====
